---------------------------- MODULE Spec2Model ----------------------------
(***************************************************************************)
(* A model of moodlecurl.py: the MoodleSession login handshake, the        *)
(* memoised dashboard / course / resource properties, the two HTML         *)
(* extractors, the Resource downloader and the downloads as asyncio Tasks. *)
(*                                                                         *)
(* Text is modelled as a sequence of one-character strings, so that the    *)
(* regular expressions of the source are computed, not assumed.  A Python  *)
(* value that may be None is modelled as a sequence of length 0 (None) or  *)
(* 1 (the value).                                                          *)
(***************************************************************************)
EXTENDS Naturals, Integers, Sequences, FiniteSets, TLC

VARIABLES
    requests,      \* every HTTP request issued so far, in order
    ms,            \* the MoodleSession instance (its private fields)
    ms_state,      \* where MoodleSession.__init__ / __login stands
    ms_form,       \* the page request 2 of the handshake returned (None before)
    extractions,   \* how often __get_courses / __find_all_resources has run
    course,        \* one Course instance (its private fields)
    resource,      \* one Resource instance (its private fields)
    served,        \* what the server holds, by URL of a resource
    fs,            \* the local filesystem: directories and files
    task,          \* the asyncio.Task that Resource.download returned
    ret,           \* the value the last property access returned
    raised,        \* the exception the last operation raised ("none" if none)
    n_access,      \* number of operations the caller has performed
    resources,     \* the Resources of one Course, as the caller holds them
    tasks,         \* every asyncio.Task made by download, in creation order
    loop           \* the asyncio event loop and the coroutine that calls download

\* The variables of the event loop.
loopvars == <<resources, tasks, loop>>

vars == <<requests, ms, ms_state, ms_form, extractions,
          course, resource, served, fs, task, ret, raised, n_access, loopvars>>

-----------------------------------------------------------------------------
(* Bounds of the model *)

MaxAccesses == 4
MaxAnchors == 2
MaxNameLen == 2
MaxChunks == 2
MaxDownloads == 2

-----------------------------------------------------------------------------
(* Python values *)

None == <<>>
Some(v) == <<v>>
IsNone(o) == Len(o) = 0
Val(o) == o[1]

\* Python's "".join of single characters is the sequence itself.
Digits == {"0", "1", "2", "3", "4", "5", "6", "7", "8", "9"}
Letters == {"a", "b", "c", "d", "e", "f", "g", "h", "i", "j", "k", "l", "m",
            "n", "o", "p", "q", "r", "s", "t", "u", "v", "w", "x", "y", "z",
            "A", "B", "C", "D", "E", "F", "G", "H", "I", "J", "K", "L", "M",
            "N", "O", "P", "Q", "R", "S", "T", "U", "V", "W", "X", "Y", "Z"}
WordChars == Letters \cup Digits \cup {"_"}

\* s[i .. i+Len(lit)-1] = lit
HasAt(s, i, lit) ==
    /\ i >= 1
    /\ i + Len(lit) - 1 <= Len(s)
    /\ \A k \in 1..Len(lit) : s[i + k - 1] = lit[k]

RECURSIVE Concat(_)
Concat(ss) == IF ss = <<>> THEN <<>> ELSE Head(ss) \o Concat(Tail(ss))

RECURSIVE SumLen(_)
SumLen(ss) == IF ss = <<>> THEN 0 ELSE Len(Head(ss)) + SumLen(Tail(ss))

\* All sequences over S of length at most n.
SeqsUpTo(S, n) == UNION {[1..k -> S] : k \in 0..n}

-----------------------------------------------------------------------------
(* The HTTP layer (requests.Session) *)

\* The Session made by MoodleSession.__init__, and the two Session() objects
\* that are the default arguments of Resource.__init__ and Course.__init__.
OwnSession == "MoodleSession.session"
ResourceDefaultSession == "Resource.default"
CourseDefaultSession == "Course.default"

\* A blocking request either returns a response or raises a transport error.
Transport == {"returns", "raises"}

\* One entry of the request log: what was sent, through which Session, and
\* how the call ended.
Req(method, url, data, session, result) ==
    [method |-> method, url |-> url, data |-> data, session |-> session,
     result |-> IF result = "raises" THEN "raised" ELSE "returned"]

\* What the last property access handed back to the caller: the property,
\* and its value (None when the access raised; `raised` tells).
Returned(of, value) == [of |-> of, value |-> value]
NothingReturned == Returned("nothing", None)

-----------------------------------------------------------------------------
(* MoodleSession: constants *)

URL_FAS_SAML == <<"https://fas.concordia.ca/adfs/ls/?SAMLRequest=...">>
URL_HOME_PAGE == <<"https://moodle.concordia.ca/moodle/">>
URL_DASHBOARD == URL_HOME_PAGE \o <<"m", "y", "/">>
URL_SECOND_POST ==
    <<"https://moodle.concordia.ca:443/moodle/auth/saml2/sp/saml2-acs.php/moodle.concordia.ca">>

Usernames == {<<"u", "1">>}
Passwords == {<<"p", "w">>}

\* The form data of the first POST of __login.
Credentials(username, password) ==
    [UserName |-> <<"concordia.ca\\">> \o username,
     Password |-> password,
     AuthMethod |-> "FormsAuthentication"]

-----------------------------------------------------------------------------
(* MoodleSession.__login and __parse_data_for_second_post *)

\* An <input> element: its name and its value attribute (None when absent).
Input(name, value) == [name |-> name, value |-> value]

\* The pages the server may answer request 2 with.  Only the <input>
\* elements matter to the handshake.
FormPages ==
    { <<>>,
      <<Input("SAMLResponse", Some("PHNhbWw+")), Input("RelayState", Some("x"))>>,
      <<Input("SAMLResponse", Some(""))>>,
      <<Input("UserName", None), Input("Password", None)>>,
      <<Input("csrf", Some("tok")), Input("SAMLResponse", Some("PHNhbWw+"))>> }

\* BeautifulSoup(got.text, 'html.parser').find_all('input')
FindAllInputs(page) == page

\* inputs[0] raises IndexError on an empty list.
ParseRaises(page) == Len(FindAllInputs(page)) = 0

\* A faulty variant: the RelayState is the dashboard URL instead of the home page.
SecondPostData_relayDashboard(page) ==
    [SAMLResponse |-> FindAllInputs(page)[1].value,
     RelayState |-> URL_DASHBOARD]

\* The dictionary __parse_data_for_second_post returns: Tag.get("value") is
\* None when the first input has no value attribute.
SecondPostData(page) ==
    [SAMLResponse |-> FindAllInputs(page)[1].value,
     RelayState |-> URL_HOME_PAGE]

\* MoodleSession.__init__ up to and including the first request of __login.
LoginPostCredentials(username, password, outcome) ==
    /\ ms_state = "unconstructed"
    /\ ms' = [session |-> OwnSession, username |-> username,
              dashboard |-> None, courses |-> None]
    /\ requests' = Append(requests,
            Req("POST", URL_FAS_SAML, Some(Credentials(username, password)),
                OwnSession, outcome))
    /\ IF outcome = "raises"
       THEN ms_state' = "failed" /\ raised' = "TransportError"
       ELSE ms_state' = "posted_credentials" /\ raised' = "none"
    /\ UNCHANGED <<ms_form, extractions, course, resource, served, fs, task,
                   ret, n_access, loopvars>>

\* __parse_data_for_second_post: the GET of the dashboard URL and the parse
\* of its body, evaluated as the argument of the second POST.
LoginGetForm(page, outcome) ==
    /\ ms_state = "posted_credentials"
    /\ requests' = Append(requests, Req("GET", URL_DASHBOARD, None, ms.session,
                                     outcome))
    /\ IF outcome = "raises"
       THEN /\ ms_state' = "failed"
            /\ raised' = "TransportError"
            /\ UNCHANGED ms_form
       ELSE /\ ms_form' = Some(page)
            /\ IF ParseRaises(page)
               THEN ms_state' = "failed" /\ raised' = "IndexError"
               ELSE ms_state' = "got_form" /\ raised' = "none"
    /\ UNCHANGED <<ms, extractions, course, resource, served, fs, task, ret,
                   n_access, loopvars>>

\* A faulty variant: an error of the second POST is swallowed and __init__ returns.
LoginPostAssertion_swallowsError(outcome) ==
    /\ ms_state = "got_form"
    /\ requests' = Append(requests,
            Req("POST", URL_SECOND_POST, Some(SecondPostData(Val(ms_form))),
                ms.session, outcome))
    /\ ms_state' = "constructed"
    /\ raised' = "none"
    /\ UNCHANGED <<ms, ms_form, extractions, course, resource, served, fs,
                   task, ret, n_access, loopvars>>

\* The second POST of __login; when it returns, __init__ returns.
LoginPostAssertion(outcome) ==
    /\ ms_state = "got_form"
    /\ requests' = Append(requests,
            Req("POST", URL_SECOND_POST, Some(SecondPostData(Val(ms_form))),
                ms.session, outcome))
    /\ IF outcome = "raises"
       THEN ms_state' = "failed" /\ raised' = "TransportError"
       ELSE ms_state' = "constructed" /\ raised' = "none"
    /\ UNCHANGED <<ms, ms_form, extractions, course, resource, served, fs,
                   task, ret, n_access, loopvars>>

-----------------------------------------------------------------------------
(* HTML pages as BeautifulSoup sees them *)

\* An <a> element: its href attribute (None when absent) and the .string of
\* each descendant <span>, in document order (None for a span whose content
\* is not a single string).
Anchor(href, spans) == [href |-> href, spans |-> spans]

Host == <<"h", "t", "t", "p", ":", "/", "/", "x">>
ViewPhpId == <<"/", "v", "i", "e", "w", ".", "p", "h", "p", "?", "i", "d", "=">>
ModResource == <<"/", "m", "o", "d", "/", "r", "e", "s", "o", "u", "r", "c", "e">>
Moodle == <<"/", "m", "o", "o", "d", "l", "e">>

\* re.compile(r'.*/view\.php\?id=\d+').search(href): '.*' at the head of a
\* searched pattern leaves "the literal occurs somewhere, followed by a digit".
SearchLiteralThenDigit(lit, s) ==
    \E i \in 1..Len(s) :
        /\ HasAt(s, i, lit)
        /\ i + Len(lit) <= Len(s)
        /\ s[i + Len(lit)] \in Digits

\* COURSE_URL_PATTERN of __get_courses (line 349).
MatchesCourseUrl(href) == SearchLiteralThenDigit(ViewPhpId, href)

\* re.compile(r'^\w{4}-\d{3}').search(text)
MatchesCourseCode(text) ==
    /\ Len(text) >= 8
    /\ \A k \in 1..4 : text[k] \in WordChars
    /\ text[5] = "-"
    /\ \A k \in 6..8 : text[k] \in Digits

\* soup.find_all('a', {'href': COURSE_URL_PATTERN}): the anchors that have
\* an href the pattern is found in, in document order.
FindAllCourseAnchors(page) ==
    SelectSeq(page, LAMBDA a : IF IsNone(a.href) THEN FALSE
                               ELSE MatchesCourseUrl(Val(a.href)))

-----------------------------------------------------------------------------
(* MoodleSession.dashboard, MoodleSession.courses and the course extractor *)

SOEN363 == <<"S", "O", "E", "N", "-", "3", "6", "3">>
COMP248 == <<"C", "O", "M", "P", "-", "2", "4", "8">>

\* The anchors a dashboard page is made of in this model.
DashboardAnchors ==
    { Anchor(Some(Host \o ViewPhpId \o <<"5">>), <<Some(SOEN363)>>),
      Anchor(Some(Host \o ViewPhpId \o <<"6">>), <<Some(<<"N", "e", "w", "s">>)>>),
      Anchor(Some(Host \o ViewPhpId \o <<"7">>),
             <<Some(<<"S", "O", "E", "-", "3", "6", "3">>), Some(COMP248)>>),
      Anchor(Some(Host \o ViewPhpId \o <<"5">>), <<Some(COMP248), Some(SOEN363)>>),
      Anchor(Some(Host \o ViewPhpId \o <<"8", "&", "x">>),
             <<Some(SOEN363 \o <<" ", "D", "B">>)>>),
      Anchor(Some(Host \o ViewPhpId), <<Some(SOEN363)>>),
      Anchor(Some(Host \o ViewPhpId \o <<"9">>), <<None>>),
      Anchor(Some(Host \o ViewPhpId \o <<"9">>),
             <<Some(<<"x">> \o SOEN363), Some(<<"S", "O", "E", "N", "-", "3", "6">>)>>),
      Anchor(None, <<Some(COMP248)>>) }

DashboardPages == SeqsUpTo(DashboardAnchors, MaxAnchors)

\* MoodleSession.Dashboard(text); id tells the instances apart.
Dashboard(id, page) == [id |-> id, soup |-> page]

\* Course.__init__
Course(name, url, session) ==
    [name |-> name, url |-> url, session |-> session,
     soup |-> None, resource_list |-> None]

\* A faulty variant: the first span is taken whether or not it matches COURSE_CODE.
GetCourseTitle_firstSpan(element) ==
    LET found == SelectSeq(element.spans, LAMBDA sp : ~IsNone(sp))
    IN  IF Len(found) < 1 THEN None ELSE Some(Val(found[1]))

\* A faulty variant: the last matching span is taken.
GetCourseTitle_lastMatch(element) ==
    LET found == SelectSeq(element.spans,
                     LAMBDA sp : ~IsNone(sp) /\ MatchesCourseCode(Val(sp)))
    IN  IF Len(found) < 1 THEN None ELSE Some(Val(found[Len(found)]))

\* __get_course_title: the text of the first span whose string matches
\* COURSE_CODE, None when there is none.
GetCourseTitle(element) ==
    LET found == SelectSeq(element.spans,
                     LAMBDA sp : ~IsNone(sp) /\ MatchesCourseCode(Val(sp)))
    IN  IF Len(found) < 1 THEN None ELSE Some(Val(found[1]))

\* The generator of __get_courses: (element, href, title) per found anchor.
CourseTriples(soup) ==
    LET found == FindAllCourseAnchors(soup)
    IN  [i \in 1..Len(found) |->
            <<found[i], Val(found[i].href), GetCourseTitle(found[i])>>]

\* _remove_non_courses: a title of None is dropped (a title is a str otherwise).
RemoveNonCourses(triples) == SelectSeq(triples, LAMBDA t : ~IsNone(t[3]))

\* _generate_courses
GenerateCourses(triples, session) ==
    [i \in 1..Len(triples) |-> Course(Val(triples[i][3]), triples[i][2], session)]

\* __get_courses with its three decorators, on the parsed dashboard.
GetCourses(soup, session) ==
    GenerateCourses(RemoveNonCourses(CourseTriples(soup)), session)

\* A faulty variant: the cache test is false for a dashboard without content, as the
\* test of a list would be.
DashboardCached_emptyIsFalse ==
    ~IsNone(ms.dashboard) /\ Val(ms.dashboard).soup # <<>>

\* `if not self.__dashboard`: a Dashboard object defines neither __bool__ nor
\* __len__, so it is true once set.
DashboardCached == ~IsNone(ms.dashboard)

\* `if not self.__courses`: None and the empty list are both false.
CoursesCached == ~IsNone(ms.courses) /\ Val(ms.courses) # <<>>

\* The dashboard property: what it leaves in __dashboard, what it appends to
\* the requests, and whether it raises.
DashboardAfter(page, outcome) ==
    IF DashboardCached THEN ms.dashboard
    ELSE IF outcome = "raises" THEN None
    ELSE Some(Dashboard(Len(requests) + 1, page))

RequestsAfterDashboard(outcome) ==
    IF DashboardCached THEN requests
    ELSE Append(requests, Req("GET", URL_DASHBOARD, None, ms.session, outcome))

DashboardRaises(outcome) == ~DashboardCached /\ outcome = "raises"

\* MoodleSession.dashboard
AccessDashboard(page, outcome) ==
    /\ ms_state = "constructed"
    /\ n_access < MaxAccesses
    /\ n_access' = n_access + 1
    /\ requests' = RequestsAfterDashboard(outcome)
    /\ ms' = [ms EXCEPT !.dashboard = DashboardAfter(page, outcome)]
    /\ ret' = Returned("dashboard", DashboardAfter(page, outcome))
    /\ raised' = IF DashboardRaises(outcome) THEN "TransportError" ELSE "none"
    /\ UNCHANGED <<ms_state, ms_form, extractions, course, resource, served,
                   fs, task, loopvars>>

\* MoodleSession.courses
AccessCourses(page, outcome) ==
    /\ ms_state = "constructed"
    /\ n_access < MaxAccesses
    /\ n_access' = n_access + 1
    /\ IF CoursesCached
       THEN /\ ret' = Returned("courses", ms.courses)
            /\ raised' = "none"
            /\ UNCHANGED <<requests, ms, extractions>>
       ELSE /\ requests' = RequestsAfterDashboard(outcome)
            /\ IF DashboardRaises(outcome)
               THEN /\ raised' = "TransportError"
                    /\ ret' = Returned("courses", None)
                    /\ UNCHANGED <<ms, extractions>>
               ELSE /\ raised' = "none"
                    /\ extractions' = extractions + 1
                    /\ LET d == DashboardAfter(page, outcome)
                           cs == GetCourses(Val(d).soup, ms.session)
                       IN  /\ ms' = [ms EXCEPT !.dashboard = d,
                                               !.courses = Some(cs)]
                           /\ ret' = Returned("courses", Some(cs))
    /\ UNCHANGED <<ms_state, ms_form, course, resource, served, fs, task,
                   loopvars>>

-----------------------------------------------------------------------------
(* Course.soup, Course.resources and the resource extractor *)

\* Resource.__init__
Resource(url, session) ==
    [url |-> url, name |-> None, response |-> None, session |-> session]

\* A faulty variant: the digits after "id=" are not required.
MatchesResourceUrl_noDigits(href) ==
    \E i \in 1..Len(href) : HasAt(href, i, Moodle \o ModResource \o ViewPhpId)

\* Course.RESOURCE_URL_PATTERN (line 202), searched in the href.
MatchesResourceUrl(href) ==
    SearchLiteralThenDigit(Moodle \o ModResource \o ViewPhpId, href)

\* The anchors a course page is made of in this model.
CourseAnchors ==
    { Anchor(Some(Host \o Moodle \o ModResource \o ViewPhpId \o <<"1">>), <<>>),
      Anchor(Some(Host \o Moodle \o ModResource \o ViewPhpId \o <<"2", "0">>), <<>>),
      Anchor(Some(Host \o ModResource \o ViewPhpId \o <<"3">>), <<>>),
      Anchor(Some(Host \o Moodle \o ModResource \o ViewPhpId), <<>>),
      Anchor(Some(Host \o Moodle \o ViewPhpId \o <<"4">>), <<>>),
      Anchor(None, <<>>) }

CoursePages == SeqsUpTo(CourseAnchors, MaxAnchors)

\* soup.find_all('a', {'href': Course.RESOURCE_URL_PATTERN})
FindAllResourceAnchors(page) ==
    SelectSeq(page, LAMBDA a : IF IsNone(a.href) THEN FALSE
                               ELSE MatchesResourceUrl(Val(a.href)))

\* A faulty variant: _to_resources leaves the session out, Resource(url=href).
FindAllResources_defaultSession(soup, session) ==
    LET found == FindAllResourceAnchors(soup)
    IN  [i \in 1..Len(found) |->
            Resource(Val(found[i].href), ResourceDefaultSession)]

\* __find_all_resources with its two decorators, on the parsed course page.
FindAllResources(soup, session) ==
    LET found == FindAllResourceAnchors(soup)
    IN  [i \in 1..Len(found) |-> Resource(Val(found[i].href), session)]

\* `if not self.__soup`: a BeautifulSoup object is true (Tag.__bool__).
SoupCached == ~IsNone(course.soup)

\* `if not self.__resource_list`: None and the empty list are both false.
ResourcesCached ==
    ~IsNone(course.resource_list) /\ Val(course.resource_list) # <<>>

\* The soup property: what it leaves in __soup and what it requests.
SoupAfter(page, outcome) ==
    IF SoupCached THEN course.soup
    ELSE IF outcome = "raises" THEN None
    ELSE Some(page)

RequestsAfterSoup(outcome) ==
    IF SoupCached THEN requests
    ELSE Append(requests, Req("GET", course.url, None, course.session, outcome))

SoupRaises(outcome) == ~SoupCached /\ outcome = "raises"

\* Course.soup
AccessSoup(page, outcome) ==
    /\ n_access < MaxAccesses
    /\ n_access' = n_access + 1
    /\ requests' = RequestsAfterSoup(outcome)
    /\ course' = [course EXCEPT !.soup = SoupAfter(page, outcome)]
    /\ ret' = Returned("soup", SoupAfter(page, outcome))
    /\ raised' = IF SoupRaises(outcome) THEN "TransportError" ELSE "none"
    /\ UNCHANGED <<ms, ms_state, ms_form, extractions, resource, served, fs,
                   task, loopvars>>

\* Course.resources
AccessResources(page, outcome) ==
    /\ n_access < MaxAccesses
    /\ n_access' = n_access + 1
    /\ IF ResourcesCached
       THEN /\ ret' = Returned("resources", course.resource_list)
            /\ raised' = "none"
            /\ UNCHANGED <<requests, course, extractions>>
       ELSE /\ requests' = RequestsAfterSoup(outcome)
            /\ IF SoupRaises(outcome)
               THEN /\ raised' = "TransportError"
                    /\ ret' = Returned("resources", None)
                    /\ UNCHANGED <<course, extractions>>
               ELSE /\ raised' = "none"
                    /\ extractions' = extractions + 1
                    /\ LET sp == SoupAfter(page, outcome)
                           rs == FindAllResources(Val(sp), course.session)
                       IN  /\ course' = [course EXCEPT !.soup = sp,
                                                !.resource_list = Some(rs)]
                           /\ ret' = Returned("resources", Some(rs))
    /\ UNCHANGED <<ms, ms_state, ms_form, resource, served, fs, task,
                   loopvars>>

-----------------------------------------------------------------------------
(* Resource.response, Resource.name and the Content-Disposition parser *)

Quote == "\""
Newline == "\n"
FilenameEqQuote == <<"f", "i", "l", "e", "n", "a", "m", "e", "=", Quote>>
AttachmentSemicolon ==
    <<"a", "t", "t", "a", "c", "h", "m", "e", "n", "t", ";", " ">>

\* The header  Content-Disposition: attachment; filename="X"
AttachmentHeader(X) == AttachmentSemicolon \o FilenameEqQuote \o X \o <<Quote>>

SetMin(S) == CHOOSE x \in S : \A y \in S : x <= y
SetMax(S) == CHOOSE x \in S : \A y \in S : y <= x

\* Where a match of  .*(?=")  that starts at p may end: '.*' takes characters
\* other than a newline and a quote must follow.
MatchEnds(h, p) ==
    {e \in (p - 1)..(Len(h) - 1) :
        /\ h[e + 1] = Quote
        /\ \A k \in p..e : h[k] # Newline}

\* Where a match of  (?<=filename=").*(?=")  may start.
MatchStarts(h) ==
    {p \in 1..(Len(h) + 1) :
        /\ HasAt(h, p - Len(FilenameEqQuote), FilenameEqQuote)
        /\ MatchEnds(h, p) # {}}

\* A faulty variant: the look-behind stops before the opening quote, (?<=filename=).
ParseFileName_keepsOpeningQuote(h) ==
    IF MatchStarts(h) = {} THEN None
    ELSE LET p == SetMin(MatchStarts(h))
         IN  Some(SubSeq(h, p - 1, SetMax(MatchEnds(h, p))))

\* filename_pattern.findall(content_disposition), then found[0] or None:
\* the leftmost match, which '.*' makes as long as it can.
ParseFileName(h) ==
    IF MatchStarts(h) = {} THEN None
    ELSE LET p == SetMin(MatchStarts(h))
         IN  Some(SubSeq(h, p, SetMax(MatchEnds(h, p))))

\* What a GET may come to: a success status, an error status (4xx, 5xx), or
\* a transport error that raises.
GetAnswers == {"ok", "error", "raises"}

\* What the server holds at a URL: the Content-Disposition header (None when
\* it sends none) and the body, as the chunks iter_content yields.  A URL the
\* model says nothing about has no header and an empty body.
Content(disposition, chunks) == [disposition |-> disposition, chunks |-> chunks]
NothingServed == Content(None, <<>>)

\* A faulty variant: every URL is answered with what the first one holds.
ServedAt_sameForAll(url) ==
    IF DOMAIN served = {} THEN NothingServed
    ELSE served[CHOOSE u \in DOMAIN served :
                    \A v \in DOMAIN served : Len(u) <= Len(v)]

ServedAt(url) == IF url \in DOMAIN served THEN served[url] ELSE NothingServed

\* A requests.Response to the GET of url: Response.__bool__ is Response.ok.
Response(ok, id, url) ==
    [ok |-> ok, disposition |-> ServedAt(url).disposition,
     chunks |-> ServedAt(url).chunks, id |-> id]

\* What an evaluation leaves: the Resource, the request log, the exception
\* ("none" if none) and the value.
Eval(r, reqs, exc, value) == [r |-> r, reqs |-> reqs, exc |-> exc, value |-> value]

\* `if not self.__response`: false for None and for a Response whose status
\* is an error (bool(Response) is Response.ok).
ResponseCached(r) == IF IsNone(r.response) THEN FALSE ELSE Val(r.response).ok

\* `if not self.__name`: None and '' are both false.
NameCached(r) == IF IsNone(r.name) THEN FALSE ELSE Val(r.name) # <<>>

\* The response property, evaluated on Resource r.
GetResponse(r, reqs, answer) ==
    IF ResponseCached(r) THEN Eval(r, reqs, "none", r.response)
    ELSE IF answer = "raises"
    THEN Eval(r, Append(reqs, Req("GET", r.url, None, r.session, "raises")),
              "TransportError", None)
    ELSE LET resp == Response(answer = "ok", Len(reqs) + 1, r.url)
         IN  Eval([r EXCEPT !.response = Some(resp)],
                  Append(reqs, Req("GET", r.url, None, r.session, "returns")),
                  "none", Some(resp))

\* __parse_file_name_from_headers: headers['Content-Disposition'] raises
\* KeyError when the header is absent.
ParseFileNameFromHeaders(r, reqs, answer) ==
    LET g == GetResponse(r, reqs, answer)
    IN  IF g.exc # "none" THEN g
        ELSE IF IsNone(Val(g.value).disposition)
        THEN Eval(g.r, g.reqs, "KeyError", None)
        ELSE Eval(g.r, g.reqs, "none",
                  ParseFileName(Val(Val(g.value).disposition)))

\* The name property, evaluated on Resource r.
GetName(r, reqs, answer) ==
    IF NameCached(r) THEN Eval(r, reqs, "none", r.name)
    ELSE LET g == ParseFileNameFromHeaders(r, reqs, answer)
         IN  IF g.exc # "none" THEN g
             ELSE Eval([g.r EXCEPT !.name = g.value], g.reqs, "none", g.value)

\* Resource.response
AccessResponse(answer) ==
    /\ n_access < MaxAccesses
    /\ n_access' = n_access + 1
    /\ LET g == GetResponse(resource, requests, answer)
       IN  /\ resource' = g.r
           /\ requests' = g.reqs
           /\ ret' = Returned("response", g.value)
           /\ raised' = g.exc
    /\ UNCHANGED <<ms, ms_state, ms_form, extractions, course, served, fs,
                   task, loopvars>>

\* Resource.name
AccessName(answer) ==
    /\ n_access < MaxAccesses
    /\ n_access' = n_access + 1
    /\ LET g == GetName(resource, requests, answer)
       IN  /\ resource' = g.r
           /\ requests' = g.reqs
           /\ ret' = Returned("name", g.value)
           /\ raised' = g.exc
    /\ UNCHANGED <<ms, ms_state, ms_form, extractions, course, served, fs,
                   task, loopvars>>

-----------------------------------------------------------------------------
(* Resource.download and __create_dir_if_not_exists *)

\* The bytes of a body are numbers; a chunk is a sequence of bytes.
Chunks == {<<>>, <<1>>, <<2, 3>>}
ChunkSeqs == SeqsUpTo(Chunks, MaxChunks)

\* A path is os.path.join(prefix_dir, name), or name alone.
Path(dir, name) == [dir |-> dir, name |-> name]

\* What os.makedirs may come to when os.path.exists said no: the directory
\* is made, or OSError is raised with errno EEXIST (another process made it
\* in between) or with another errno.
MakedirsAnswers == {"created", "EEXIST", "EACCES"}

\* The asyncio.Task of one download call.  mkdir and path record what the
\* body did: how os.makedirs ended ("skipped" when not called) and the file
\* it opened (None when it opened none).
Task(state, prefix_dir, filename, exc, result, mkdir, path) ==
    [state |-> state, prefix_dir |-> prefix_dir, filename |-> filename,
     exc |-> exc, result |-> result, mkdir |-> mkdir, path |-> path]

\* A faulty variant: bytes_saved counts the chunks written, not their bytes.
RECURSIVE WriteChunks_countsChunks(_, _, _)
WriteChunks_countsChunks(chunks, content, bytes_saved) ==
    IF chunks = <<>> THEN [content |-> content, bytes_saved |-> bytes_saved]
    ELSE IF Head(chunks) # <<>>
    THEN WriteChunks_countsChunks(Tail(chunks), content \o Head(chunks),
                                  bytes_saved + 1)
    ELSE WriteChunks_countsChunks(Tail(chunks), content, bytes_saved)

\* The loop of download: `if (chunk)` skips an empty chunk; a chunk that is
\* not empty is written and counted.
RECURSIVE WriteChunks(_, _, _)
WriteChunks(chunks, content, bytes_saved) ==
    IF chunks = <<>> THEN [content |-> content, bytes_saved |-> bytes_saved]
    ELSE IF Head(chunks) # <<>>
    THEN WriteChunks(Tail(chunks), content \o Head(chunks),
                     bytes_saved + Len(Head(chunks)))
    ELSE WriteChunks(Tail(chunks), content, bytes_saved)

\* `filename if filename` and `if prefix_dir`: None and '' are false.  A file
\* name is a sequence of characters, a directory a string of the model.
Truthy(o) == IF IsNone(o) THEN FALSE ELSE Val(o) # <<>>
TruthyDir(o) == IF IsNone(o) THEN FALSE ELSE Val(o) # ""

\* __create_dir_if_not_exists: os.makedirs is called only when the path does
\* not exist.  The except clause reads errno.EEXIST, and errno is not
\* imported (lines 3-10): every OSError of os.makedirs ends in a NameError.
CreateDirIfNotExists(f, dir, mk) ==
    IF dir \in f.dirs THEN [fs |-> f, exc |-> "none", mkdir |-> "skipped"]
    ELSE IF mk = "created"
    THEN [fs |-> [f EXCEPT !.dirs = @ \cup {dir}], exc |-> "none", mkdir |-> mk]
    ELSE IF mk = "EEXIST"
    THEN [fs |-> [f EXCEPT !.dirs = @ \cup {dir}], exc |-> "NameError",
          mkdir |-> mk]
    ELSE [fs |-> f, exc |-> "NameError", mkdir |-> mk]

\* open(save_as, 'wb'): an empty name is no file; otherwise the file is
\* created or truncated.
OpenRaises(path) == path.name = <<>>
OpenTruncate(f, path) ==
    [f EXCEPT !.files = {x \in @ : x.path # path}
                          \cup {[path |-> path, content |-> <<>>]}]
WriteFile(f, path, content) ==
    [f EXCEPT !.files = {x \in @ : x.path # path}
                          \cup {[path |-> path, content |-> content]}]

\* What the body of download leaves behind.
Ran(r, reqs, f, t) == [r |-> r, reqs |-> reqs, fs |-> f, task |-> t]

\* The body of download from `with open(...)` on.
DownloadInto(t, path, mkdir, r, reqs, f, a2) ==
    IF OpenRaises(path)
    THEN Ran(r, reqs, f,
             Task("failed", t.prefix_dir, t.filename,
                  IF IsNone(path.dir) THEN "FileNotFoundError"
                  ELSE "IsADirectoryError", None, mkdir, None))
    ELSE LET g == GetResponse(r, reqs, a2)
         IN  IF g.exc # "none"
             THEN Ran(g.r, g.reqs, OpenTruncate(f, path),
                      Task("failed", t.prefix_dir, t.filename, g.exc, None,
                           mkdir, Some(path)))
             ELSE LET w == WriteChunks(Val(g.value).chunks, <<>>, 0)
                  IN  Ran(g.r, g.reqs, WriteFile(f, path, w.content),
                          Task("done", t.prefix_dir, t.filename, "none",
                               Some(w.bytes_saved), mkdir, Some(path)))

\* The body of download from `if prefix_dir` on, save_as being known.
DownloadAs(t, save_as, r, reqs, f, a2, mk) ==
    IF TruthyDir(t.prefix_dir)
    THEN LET c == CreateDirIfNotExists(f, Val(t.prefix_dir), mk)
         IN  IF c.exc # "none"
             THEN Ran(r, reqs, c.fs,
                      Task("failed", t.prefix_dir, t.filename, c.exc, None,
                           c.mkdir, None))
             ELSE IF IsNone(save_as)
             THEN Ran(r, reqs, c.fs,
                      Task("failed", t.prefix_dir, t.filename, "TypeError",
                           None, c.mkdir, None))
             ELSE DownloadInto(t, Path(t.prefix_dir, Val(save_as)), c.mkdir,
                               r, reqs, c.fs, a2)
    ELSE IF IsNone(save_as)
    THEN Ran(r, reqs, f,
             Task("failed", t.prefix_dir, t.filename, "TypeError", None,
                  "skipped", None))
    ELSE DownloadInto(t, Path(None, Val(save_as)), "skipped", r, reqs, f, a2)

\* A faulty variant: the name of the header is used when there is one, the filename
\* argument only otherwise (save_as = self.name or filename).
DownloadBody_headerFirst(t, r, reqs, f, a1, a2, mk) ==
    LET n == GetName(r, reqs, a1)
    IN  IF n.exc # "none"
        THEN Ran(n.r, n.reqs, f,
                 Task("failed", t.prefix_dir, t.filename, n.exc, None,
                      "skipped", None))
        ELSE DownloadAs(t, IF Truthy(n.value) THEN n.value ELSE t.filename,
                        n.r, n.reqs, f, a2, mk)

\* The whole body of download (it holds no await): a1 and a2 are what the
\* server answers if name and response have to fetch, mk what os.makedirs
\* comes to if it is called.
DownloadBody(t, r, reqs, f, a1, a2, mk) ==
    IF Truthy(t.filename)
    THEN DownloadAs(t, t.filename, r, reqs, f, a2, mk)
    ELSE LET n == GetName(r, reqs, a1)
         IN  IF n.exc # "none"
             THEN Ran(n.r, n.reqs, f,
                      Task("failed", t.prefix_dir, t.filename, n.exc, None,
                           "skipped", None))
             ELSE DownloadAs(t, n.value, n.r, n.reqs, f, a2, mk)

PrefixDirs == {None, Some("downloads")}
FilenameArgs == {None, Some(<<"f">>)}

\* Resource.download as the caller sees it: Decorators.totask wraps the
\* coroutine in asyncio.create_task and returns the Task; nothing of the body
\* has run.
Download(prefix_dir, filename) ==
    /\ n_access < MaxDownloads
    /\ IF IsNone(task) THEN TRUE ELSE Val(task).state # "pending"
    /\ n_access' = n_access + 1
    /\ task' = Some(Task("pending", prefix_dir, filename, "none", None,
                         "skipped", None))
    /\ ret' = Returned("download", None)
    /\ raised' = "none"
    /\ UNCHANGED <<requests, ms, ms_state, ms_form, extractions, course,
                   resource, served, fs, loopvars>>

\* The event loop runs the scheduled task: the body runs to its end.
RunDownload(a1, a2, mk) ==
    /\ ~IsNone(task)
    /\ Val(task).state = "pending"
    /\ LET d == DownloadBody(Val(task), resource, requests, fs, a1, a2, mk)
       IN  /\ resource' = d.r
           /\ requests' = d.reqs
           /\ fs' = d.fs
           /\ task' = Some(d.task)
    /\ UNCHANGED <<ms, ms_state, ms_form, extractions, course, served, ret,
                   raised, n_access, loopvars>>

-----------------------------------------------------------------------------
(* Several downloads on one asyncio event loop (Decorators.totask, main) *)

\* The entry of the loop's ready queue that resumes the coroutine that awaits
\* a Task; the first step of Task k is the entry k.
CallerWakeup == 0

\* The asyncio.Task of one call of download on the loop: the Task of the call,
\* the Resource it was called on (its position in resources), whether cancel()
\* has been requested, and where the body stands in its loop: the chunks it
\* has still to take and its bytes_saved.
LoopTask(t, of, must_cancel, todo, bytes_saved) ==
    [task |-> t, of |-> of, must_cancel |-> must_cancel, todo |-> todo,
     bytes_saved |-> bytes_saved]

\* Task.done()
Finished(lt) == lt.task.state \in {"done", "failed", "cancelled"}

\* The Tasks whose body has begun and has not returned.
Running == {k \in 1..Len(tasks) : tasks[k].task.state = "running"}

\* A faulty variant: the body awaits between two chunks.
Suspends_betweenChunks(k) == tasks[k].todo # <<>>

\* The body of download holds no await (lines 158-177): a Task whose body has
\* begun does not hand control back to the loop before the body returns.
Suspends(k) == FALSE

\* The loop runs one callback at a time, on one thread: it takes the next
\* entry of its ready queue only when no body is being run.
LoopFree == \A k \in Running : Suspends(k)

\* Task k is done: the coroutine that awaits it, if any, is made ready.
Woken(lp, k) ==
    IF lp.awaited = k THEN [lp EXCEPT !.ready = Append(@, CallerWakeup)]
    ELSE lp

\* The content of the file at path (a file the body has opened).
FileContent(f, path) == (CHOOSE x \in f.files : x.path = path).content

\* Resource.download called by a coroutine of the loop: asyncio.create_task
\* makes the Task and puts its first step at the end of the ready queue; the
\* Task is returned and nothing of the body has run.
CallDownload(i, prefix_dir, filename) ==
    /\ loop.caller = "running"
    /\ n_access < MaxAccesses
    /\ Len(tasks) < MaxDownloads
    /\ i \in 1..Len(resources)
    /\ n_access' = n_access + 1
    /\ tasks' = Append(tasks,
            LoopTask(Task("pending", prefix_dir, filename, "none", None,
                          "skipped", None), i, FALSE, <<>>, 0))
    /\ loop' = [loop EXCEPT !.ready = Append(@, Len(tasks) + 1)]
    /\ ret' = Returned("download", Some(Len(tasks) + 1))
    /\ raised' = "none"
    /\ UNCHANGED <<requests, ms, ms_state, ms_form, extractions, course,
                   resource, served, fs, task, resources>>

\* Task.cancel() called by the coroutine that holds the Task: False for a Task
\* that is done; otherwise the request is noted for the Task's next step.
Cancel(k) ==
    /\ loop.caller = "running"
    /\ n_access < MaxAccesses
    /\ k \in 1..Len(tasks)
    /\ n_access' = n_access + 1
    /\ tasks' = IF Finished(tasks[k]) THEN tasks
                ELSE [tasks EXCEPT ![k].must_cancel = TRUE]
    /\ ret' = Returned("cancel", Some(~Finished(tasks[k])))
    /\ raised' = "none"
    /\ UNCHANGED <<requests, ms, ms_state, ms_form, extractions, course,
                   resource, served, fs, task, resources, loop>>

\* `await task` (main, line 374): the result or the exception of a Task that
\* is done is handed over at once; otherwise the coroutine is suspended until
\* the Task is done, and the loop runs.
Await(k) ==
    /\ loop.caller = "running"
    /\ n_access < MaxAccesses
    /\ k \in 1..Len(tasks)
    /\ n_access' = n_access + 1
    /\ IF Finished(tasks[k])
       THEN /\ ret' = Returned("await", tasks[k].task.result)
            /\ raised' = tasks[k].task.exc
            /\ UNCHANGED loop
       ELSE /\ loop' = [loop EXCEPT !.caller = "waiting", !.awaited = k]
            /\ UNCHANGED <<ret, raised>>
    /\ UNCHANGED <<requests, ms, ms_state, ms_form, extractions, course,
                   resource, served, fs, task, resources, tasks>>

\* A faulty variant: a cancellation requested before the first step is not looked at.
FirstStep_ignoresCancel(lt, r, reqs, f, a1, a2, mk) ==
    DownloadBody(lt.task, r, reqs, f, a1, a2, mk)

\* The first step of a Task: a cancellation requested before it is thrown
\* into the coroutine, which has not begun, so the body does not run;
\* otherwise the body runs.
FirstStep(lt, r, reqs, f, a1, a2, mk) ==
    IF lt.must_cancel
    THEN Ran(r, reqs, f,
             Task("cancelled", lt.task.prefix_dir, lt.task.filename,
                  "CancelledError", None, "skipped", None))
    ELSE DownloadBody(lt.task, r, reqs, f, a1, a2, mk)

\* The loop takes the first step of the Task at the head of its ready queue.
\* A body that does not raise is followed here up to its `for`: the file is
\* open and empty and the response is at hand; WriteChunk and FinishTask are
\* the rest of it.
StartTask(a1, a2, mk) ==
    /\ loop.caller = "waiting"
    /\ LoopFree
    /\ loop.ready # <<>>
    /\ Head(loop.ready) # CallerWakeup
    /\ LET k == Head(loop.ready)
           lt == tasks[k]
           d == FirstStep(lt, resources[lt.of], requests, fs, a1, a2, mk)
           taken == [loop EXCEPT !.ready = Tail(@),
                                 !.started = IF lt.must_cancel THEN @
                                             ELSE Append(@, k)]
       IN  /\ resources' = [resources EXCEPT ![lt.of] = d.r]
           /\ requests' = d.reqs
           /\ IF d.task.state = "done"
              THEN /\ fs' = OpenTruncate(d.fs, Val(d.task.path))
                   /\ tasks' = [tasks EXCEPT ![k] =
                         LoopTask([d.task EXCEPT !.state = "running",
                                                 !.result = None],
                                  lt.of, FALSE, Val(d.r.response).chunks, 0)]
                   /\ loop' = taken
              ELSE /\ fs' = d.fs
                   /\ tasks' = [tasks EXCEPT ![k] =
                         LoopTask(d.task, lt.of, FALSE, <<>>, 0)]
                   /\ loop' = Woken(taken, k)
    /\ UNCHANGED <<ms, ms_state, ms_form, extractions, course, resource,
                   served, task, ret, raised, n_access>>

\* One turn of the `for` of the body of Task k.
WriteChunk(k) ==
    /\ k \in Running
    /\ tasks[k].todo # <<>>
    /\ LET lt == tasks[k]
           path == Val(lt.task.path)
           w == WriteChunks(<<Head(lt.todo)>>, FileContent(fs, path),
                            lt.bytes_saved)
       IN  /\ fs' = WriteFile(fs, path, w.content)
           /\ tasks' = [tasks EXCEPT ![k].todo = Tail(@),
                                     ![k].bytes_saved = w.bytes_saved]
           /\ loop' = [loop EXCEPT !.writes = IF Head(lt.todo) # <<>>
                                              THEN Append(@, k) ELSE @]
    /\ UNCHANGED <<requests, ms, ms_state, ms_form, extractions, course,
                   resource, served, task, ret, raised, n_access, resources>>

\* The body of Task k returns bytes_saved: the Task is done.
FinishTask(k) ==
    /\ k \in Running
    /\ tasks[k].todo = <<>>
    /\ tasks' = [tasks EXCEPT ![k].task.state = "done",
                              ![k].task.result = Some(tasks[k].bytes_saved)]
    /\ loop' = Woken(loop, k)
    /\ UNCHANGED <<requests, ms, ms_state, ms_form, extractions, course,
                   resource, served, fs, task, ret, raised, n_access,
                   resources>>

\* The loop resumes the coroutine that awaited a Task: `await` hands over the
\* Task's result or raises its exception.
Wakeup ==
    /\ loop.caller = "waiting"
    /\ LoopFree
    /\ loop.ready # <<>>
    /\ Head(loop.ready) = CallerWakeup
    /\ loop' = [loop EXCEPT !.ready = Tail(@), !.caller = "running",
                            !.awaited = 0]
    /\ ret' = Returned("await", tasks[loop.awaited].task.result)
    /\ raised' = tasks[loop.awaited].task.exc
    /\ UNCHANGED <<requests, ms, ms_state, ms_form, extractions, course,
                   resource, served, fs, task, n_access, resources, tasks>>

-----------------------------------------------------------------------------
(* The MoodleSession specification: construction, then any accesses *)

NoMoodleSession ==
    [session |-> "unset", username |-> <<>>, dashboard |-> None,
     courses |-> None]

NoCourse == Course(<<>>, <<>>, CourseDefaultSession)
NoResource == Resource(<<>>, ResourceDefaultSession)

\* A loop with nothing scheduled, running the coroutine that calls download.
NoLoop ==
    [caller |-> "running", awaited |-> 0, ready |-> <<>>, started |-> <<>>,
     writes |-> <<>>]
EmptyFs == [dirs |-> {}, files |-> {}]

InitIdle ==
    /\ requests = <<>>
    /\ ms = NoMoodleSession
    /\ ms_state = "unconstructed"
    /\ ms_form = None
    /\ extractions = 0
    /\ course = NoCourse
    /\ resource = NoResource
    /\ served = <<>>
    /\ fs = EmptyFs
    /\ task = None
    /\ ret = NothingReturned
    /\ raised = "none"
    /\ n_access = 0
    /\ resources = <<>>
    /\ tasks = <<>>
    /\ loop = NoLoop

Init == InitIdle

\* The server answers only when it is asked: no page and no transport outcome
\* is drawn for an access that issues no request.
DashboardAnswers == IF DashboardCached THEN {<<>>} ELSE DashboardPages
DashboardOutcomes == IF DashboardCached THEN {"returns"} ELSE Transport

Next ==
    \/ \E u \in Usernames, p \in Passwords, o \in Transport :
            LoginPostCredentials(u, p, o)
    \/ \E page \in FormPages, o \in Transport : LoginGetForm(page, o)
    \/ \E o \in Transport : LoginPostAssertion(o)
    \/ \E page \in DashboardAnswers, o \in DashboardOutcomes :
            AccessDashboard(page, o)
    \/ \E page \in DashboardAnswers, o \in DashboardOutcomes :
            AccessCourses(page, o)

Spec == Init /\ [][Next]_vars

-----------------------------------------------------------------------------
(* The Course specification: one Course made by MoodleSession.courses *)

\* The Courses that _generate_courses makes from the anchors of the model.
GeneratedCourses ==
    UNION { {GetCourses(<<a>>, OwnSession)[i] :
                i \in 1..Len(GetCourses(<<a>>, OwnSession))} :
            a \in DashboardAnchors }

InitCourse ==
    /\ requests = <<>>
    /\ ms = NoMoodleSession
    /\ ms_state = "unconstructed"
    /\ ms_form = None
    /\ extractions = 0
    /\ course \in GeneratedCourses
    /\ resource = NoResource
    /\ served = <<>>
    /\ fs = EmptyFs
    /\ task = None
    /\ ret = NothingReturned
    /\ raised = "none"
    /\ n_access = 0
    /\ resources = <<>>
    /\ tasks = <<>>
    /\ loop = NoLoop

CourseAnswers == IF SoupCached THEN {<<>>} ELSE CoursePages
CourseOutcomes == IF SoupCached THEN {"returns"} ELSE Transport

NextCourse ==
    \/ \E page \in CourseAnswers, o \in CourseOutcomes : AccessSoup(page, o)
    \/ \E page \in CourseAnswers, o \in CourseOutcomes :
            AccessResources(page, o)

SpecCourse == InitCourse /\ [][NextCourse]_vars

-----------------------------------------------------------------------------
(* The Resource specifications: one Resource made by Course.resources *)

ResourceUrl == Host \o Moodle \o ModResource \o ViewPhpId \o <<"1">>

\* The characters of the file names of the model, and the names.
FileChars == {"a", ".", Quote}
FileNames == SeqsUpTo(FileChars, MaxNameLen)

Inline == <<"i", "n", "l", "i", "n", "e">>
Unquoted == AttachmentSemicolon \o <<"f", "i", "l", "e", "n", "a", "m", "e", "=", "a">>
TwoParameters ==
    AttachmentHeader(<<"a">>) \o <<";", " ", "x", "=", Quote, "b", Quote>>

\* The Content-Disposition headers of SpecName: absent, without a quoted
\* filename, with the filename followed by a parameter, and the header of
\* each file name.
NameDispositions ==
    {None, Some(Inline), Some(Unquoted), Some(TwoParameters)}
        \cup {Some(AttachmentHeader(X)) : X \in FileNames}

\* The Content-Disposition headers of SpecResource.
DownloadDispositions ==
    {None, Some(Inline), Some(AttachmentHeader(<<"a", ".", "p">>))}

InitResourceWith(dispositions, chunkSeqs, dirSets) ==
    /\ requests = <<>>
    /\ ms = NoMoodleSession
    /\ ms_state = "unconstructed"
    /\ ms_form = None
    /\ extractions = 0
    /\ course = NoCourse
    /\ resource = Resource(ResourceUrl, OwnSession)
    /\ served \in [{ResourceUrl} ->
                        [disposition : dispositions, chunks : chunkSeqs]]
    /\ fs \in [dirs : dirSets, files : {{}}]
    /\ task = None
    /\ ret = NothingReturned
    /\ raised = "none"
    /\ n_access = 0
    /\ resources = <<>>
    /\ tasks = <<>>
    /\ loop = NoLoop

\* The server answers only when it is asked.
ResponseAnswers == IF ResponseCached(resource) THEN {"ok"} ELSE GetAnswers

InitName == InitResourceWith(NameDispositions, {<<>>}, {{}})

NextName ==
    \/ \E a \in ResponseAnswers : AccessResponse(a)
    \/ \E a \in ResponseAnswers : AccessName(a)

SpecName == InitName /\ [][NextName]_vars

InitResource ==
    InitResourceWith(DownloadDispositions, ChunkSeqs, {{}, {"downloads"}})

\* os.makedirs answers only when it is called.
MakedirsCalled ==
    IF IsNone(task) THEN FALSE
    ELSE /\ TruthyDir(Val(task).prefix_dir)
         /\ Val(Val(task).prefix_dir) \notin fs.dirs
MakedirsOutcomes == IF MakedirsCalled THEN MakedirsAnswers ELSE {"created"}

NextResource ==
    \/ \E d \in PrefixDirs, f \in FilenameArgs : Download(d, f)
    \/ \E a1 \in ResponseAnswers, a2 \in ResponseAnswers,
          mk \in MakedirsOutcomes :
            RunDownload(a1, a2, mk)

SpecResource == InitResource /\ [][NextResource]_vars

-----------------------------------------------------------------------------
(* The event-loop specification: downloads of the Resources of one Course *)

SecondUrl == Host \o Moodle \o ModResource \o ViewPhpId \o <<"2", "0">>

\* The course page the Resources come from: two resource links.
LoopCoursePage == <<Anchor(Some(ResourceUrl), <<>>), Anchor(Some(SecondUrl), <<>>)>>

\* What the server holds at the second URL.
SecondContent ==
    Content(Some(AttachmentHeader(<<"a", ".", "p">>)), << <<2, 3>>, <<1>> >>)

\* What it may hold at the first: with or without the header, and a body of
\* one chunk, or of an empty chunk and a chunk.
LoopDispositions == {None, Some(AttachmentHeader(<<"a", ".", "p">>))}
LoopBodies == { << <<1>> >>, << <<>>, <<2, 3>> >> }

\* main calls download(prefix_dir='downloads') (line 374).
LoopPrefixDirs == {Some("downloads")}

\* The answers to a GET on the loop: a response, or a transport error.
LoopGetAnswers == {"ok", "raises"}

InitLoop ==
    /\ requests = <<>>
    /\ ms = NoMoodleSession
    /\ ms_state = "unconstructed"
    /\ ms_form = None
    /\ extractions = 0
    /\ course = NoCourse
    /\ resource = NoResource
    /\ served \in {[u \in {ResourceUrl, SecondUrl} |->
                        IF u = ResourceUrl THEN c ELSE SecondContent] :
                   c \in [disposition : LoopDispositions, chunks : LoopBodies]}
    /\ fs = [dirs |-> {"downloads"}, files |-> {}]
    /\ task = None
    /\ ret = NothingReturned
    /\ raised = "none"
    /\ n_access = 0
    /\ resources = FindAllResources(LoopCoursePage, OwnSession)
    /\ tasks = <<>>
    /\ loop = NoLoop

\* The Task whose first step the loop takes next (None when there is none).
NextTask ==
    IF loop.ready = <<>> THEN None
    ELSE IF Head(loop.ready) = CallerWakeup THEN None
    ELSE IF tasks[Head(loop.ready)].must_cancel THEN None
    ELSE Some(tasks[Head(loop.ready)])

\* The server and os.makedirs answer only when they are asked.
LoopAnswers ==
    IF IsNone(NextTask) THEN {"ok"}
    ELSE IF ResponseCached(resources[Val(NextTask).of]) THEN {"ok"}
    ELSE LoopGetAnswers

LoopMakedirsOutcomes ==
    IF IsNone(NextTask) THEN {"created"}
    ELSE IF /\ TruthyDir(Val(NextTask).task.prefix_dir)
            /\ Val(Val(NextTask).task.prefix_dir) \notin fs.dirs
    THEN MakedirsAnswers
    ELSE {"created"}

NextLoop ==
    \/ \E i \in 1..Len(resources), d \in LoopPrefixDirs, f \in FilenameArgs :
            CallDownload(i, d, f)
    \/ \E k \in 1..Len(tasks) : Cancel(k)
    \/ \E k \in 1..Len(tasks) : Await(k)
    \/ \E a1 \in LoopAnswers, a2 \in LoopAnswers, mk \in LoopMakedirsOutcomes :
            StartTask(a1, a2, mk)
    \/ \E k \in 1..Len(tasks) : WriteChunk(k)
    \/ \E k \in 1..Len(tasks) : FinishTask(k)
    \/ Wakeup

SpecLoop == InitLoop /\ [][NextLoop]_vars

-----------------------------------------------------------------------------
(* The portal specification: main, from the login to a Resource's response *)

\* The dashboards of this specification: without a course, and with two.
PortalDashboardPages ==
    { <<>>,
      << Anchor(Some(Host \o ViewPhpId \o <<"5">>), <<Some(SOEN363)>>),
         Anchor(Some(Host \o ViewPhpId \o <<"7">>),
                <<Some(<<"S", "O", "E", "-", "3", "6", "3">>), Some(COMP248)>>) >> }

\* Its course pages: without a resource link, and with two.
PortalCoursePages == {<<>>, LoopCoursePage}

PortalDashboardAnswers == IF DashboardCached THEN {<<>>} ELSE PortalDashboardPages
PortalCourseAnswers == IF SoupCached THEN {<<>>} ELSE PortalCoursePages

\* main, lines 362-364: the caller takes a Course out of the list that
\* moodle.courses returned.
PickCourse(k) ==
    /\ ms_state = "constructed"
    /\ course = NoCourse
    /\ ret.of = "courses"
    /\ raised = "none"
    /\ k \in 1..Len(Val(ret.value))
    /\ course' = Val(ret.value)[k]
    /\ UNCHANGED <<requests, ms, ms_state, ms_form, extractions, resource,
                   served, fs, task, ret, raised, n_access, loopvars>>

\* main, line 374: the caller takes a Resource out of the list that
\* resources returned.
PickResource(k) ==
    /\ course # NoCourse
    /\ resource = NoResource
    /\ ret.of = "resources"
    /\ raised = "none"
    /\ k \in 1..Len(Val(ret.value))
    /\ resource' = Val(ret.value)[k]
    /\ UNCHANGED <<requests, ms, ms_state, ms_form, extractions, course,
                   served, fs, task, ret, raised, n_access, loopvars>>

NextPortal ==
    \/ \E u \in Usernames, p \in Passwords, o \in Transport :
            LoginPostCredentials(u, p, o)
    \/ \E page \in FormPages, o \in Transport : LoginGetForm(page, o)
    \/ \E o \in Transport : LoginPostAssertion(o)
    \/ \E page \in PortalDashboardAnswers, o \in DashboardOutcomes :
            AccessCourses(page, o)
    \/ \E k \in 1..MaxAnchors : PickCourse(k)
    \/ \E page \in PortalCourseAnswers, o \in CourseOutcomes :
            course # NoCourse /\ AccessResources(page, o)
    \/ \E k \in 1..MaxAnchors : PickResource(k)
    \/ \E a \in ResponseAnswers : resource # NoResource /\ AccessResponse(a)

SpecPortal == Init /\ [][NextPortal]_vars

-----------------------------------------------------------------------------
(* Claims about MoodleSession (specification Spec) *)

IsAcsPost(r) == r.method = "POST" /\ r.url = URL_SECOND_POST
IsCredentialsPost(r) == r.method = "POST" /\ r.url = URL_FAS_SAML
IsDashboardGet(r) == r.method = "GET" /\ r.url = URL_DASHBOARD

\* C1: constructing a MoodleSession performs the handshake once, as three
\* requests on one Session and in this order: the POST of the credentials to
\* the federation endpoint, the GET of the dashboard URL, the POST to the
\* Assertion Consumer Service carrying the value taken from the body of
\* request 2 and RelayState = the home URL.  Request 3 is issued only after
\* request 2 has returned, nothing is repeated, and a constructed session has
\* issued exactly these three.
C1_HandshakeIsThreeOrderedRequests ==
    /\ ms_state = "unconstructed" => requests = <<>>
    /\ ms_state = "posted_credentials" => Len(requests) = 1
    /\ ms_state = "got_form" => Len(requests) = 2
    /\ ms_state = "failed" => Len(requests) \in 1..3
    /\ ms_state = "constructed" =>
          /\ Len(requests) >= 3
          /\ n_access = 0 => Len(requests) = 3
          /\ \A i \in 1..3 : requests[i].result = "returned"
    /\ Len(requests) >= 1 =>
          /\ IsCredentialsPost(requests[1])
          /\ \E p \in Passwords :
                requests[1].data = Some(Credentials(ms.username, p))
    /\ Len(requests) >= 2 =>
          /\ IsDashboardGet(requests[2])
          /\ requests[1].result = "returned"
    /\ Len(requests) >= 3 =>
          /\ IsAcsPost(requests[3])
          /\ requests[2].result = "returned"
          /\ ~IsNone(ms_form)
          /\ Val(requests[3].data).SAMLResponse = Val(ms_form)[1].value
          /\ Val(requests[3].data).RelayState = URL_HOME_PAGE
    /\ \A i \in 1..Len(requests) :
          /\ requests[i].session = OwnSession
          /\ IsCredentialsPost(requests[i]) => i = 1
          /\ IsAcsPost(requests[i]) => i = 3

\* C1 witness: a session just constructed from a well-formed SAML form.
C1_Witness ==
    /\ ms_state = "constructed"
    /\ n_access = 0
    /\ resources = <<>>
    /\ tasks = <<>>
    /\ loop = NoLoop
    /\ Len(requests) = 3
    /\ Val(requests[3].data).SAMLResponse = Some("PHNhbWw+")

\* The page carries a SAMLResponse value where the handshake looks for it.
CarriesSamlValue(page) == Len(page) >= 1 /\ ~IsNone(page[1].value)

\* C2: when the page request 2 returned has no input carrying a SAMLResponse
\* value (no input, or a first input without a value), login fails and the
\* POST to the Assertion Consumer Service is never issued.
C2_NoPostWithoutSamlValue ==
    (~IsNone(ms_form) /\ ~CarriesSamlValue(Val(ms_form))) =>
        /\ ms_state # "constructed"
        /\ \A i \in 1..Len(requests) : ~IsAcsPost(requests[i])

\* The dashboard fetches of the loader that returned (after the handshake).
DashboardFetches ==
    {i \in 4..Len(requests) :
        IsDashboardGet(requests[i]) /\ requests[i].result = "returned"}

\* C4: after login the dashboard URL is fetched exactly once, by the first
\* access that gets an answer; every later access to dashboard or courses
\* issues no request, and dashboard returns that one cached instance.
C4_DashboardFetchedOnce ==
    ms_state = "constructed" =>
        /\ Cardinality(DashboardFetches) <= 1
        /\ DashboardCached <=> DashboardFetches # {}
        /\ DashboardCached =>
              /\ DashboardFetches = {Len(requests)}
              /\ Val(ms.dashboard).id = Len(requests)
        /\ \A i \in 4..Len(requests) :
              /\ IsDashboardGet(requests[i])
              /\ i < Len(requests) => requests[i].result = "raised"
        /\ (n_access >= 1 /\ \A i \in 4..Len(requests) :
                                requests[i].result = "returned")
              => DashboardCached /\ Len(requests) = 4
        /\ (ret.of = "dashboard" /\ raised = "none") =>
              ret.value = ms.dashboard /\ DashboardCached

\* C4 witness: three accesses, one fetch, the last one answered from the cache.
C4_Witness ==
    /\ ms_state = "constructed"
    /\ n_access = 3
    /\ Len(requests) = 4
    /\ ret.of = "dashboard"
    /\ Val(ret.value).id = 4

\* An anchor that the course extractor must keep.
IsCourseAnchor(a) ==
    IF IsNone(a.href) THEN FALSE
    ELSE /\ MatchesCourseUrl(Val(a.href))
         /\ \E j \in 1..Len(a.spans) :
                IF IsNone(a.spans[j]) THEN FALSE
                ELSE MatchesCourseCode(Val(a.spans[j]))

\* cs holds one element per anchor of page whose position is in kept, in
\* document order, each with that anchor's href as its url.
OnePerKeptAnchor(cs, page, kept) ==
    \E f \in [1..Len(cs) -> 1..Len(page)] :
        /\ \A j, k \in 1..Len(cs) : j < k => f[j] < f[k]
        /\ {f[k] : k \in 1..Len(cs)} = kept
        /\ \A k \in 1..Len(cs) : cs[k].url = Val(page[f[k]].href)


\* C5: courses returns exactly one Course per anchor whose href matches the
\* course-view pattern and that has a span matching the course-code pattern,
\* in document order and without deduplication; any other anchor contributes
\* nothing and raises nothing.
C5_CoursesAreTheCourseAnchors ==
    /\ (ret.of = "courses" /\ raised = "none") =>
          /\ DashboardCached
          /\ ~IsNone(ret.value)
          /\ OnePerKeptAnchor(Val(ret.value), Val(ms.dashboard).soup,
                {i \in 1..Len(Val(ms.dashboard).soup) :
                    IsCourseAnchor(Val(ms.dashboard).soup[i])})
          /\ \A k \in 1..Len(Val(ret.value)) :
                MatchesCourseCode(Val(ret.value)[k].name)
    /\ (ms_state = "constructed" /\ DashboardCached) => raised = "none"

\* C5 witness: the page of the scenario, an anchor with SOEN-363 and an
\* anchor without a course code, gives the single Course SOEN-363.
C5_Witness ==
    /\ ret.of = "courses"
    /\ raised = "none"
    /\ Val(ms.dashboard).soup =
          << Anchor(Some(Host \o ViewPhpId \o <<"5">>), <<Some(SOEN363)>>),
             Anchor(Some(Host \o ViewPhpId \o <<"6">>),
                    <<Some(<<"N", "e", "w", "s">>)>>) >>
    /\ Len(Val(ret.value)) = 1
    /\ Val(ret.value)[1].name = SOEN363
    /\ Val(ret.value)[1].url = Host \o ViewPhpId \o <<"5">>

\* Span j of anchor a matches the course-code pattern.
IsCourseCodeSpan(a, j) ==
    IF IsNone(a.spans[j]) THEN FALSE ELSE MatchesCourseCode(Val(a.spans[j]))

\* The positions in page of the anchors whose href matches the course-view
\* URL pattern.
CourseViewAnchors(page) ==
    {i \in 1..Len(page) :
        IF IsNone(page[i].href) THEN FALSE
        ELSE MatchesCourseUrl(Val(page[i].href))}

\* C16: an anchor with several spans that match the course-code pattern gives
\* one Course, named by the first of them in document order: the Courses are
\* the kept anchors, one each and in order, each named by the text of its
\* anchor's first matching span; and there are never more Courses than
\* anchors matching the course-view URL pattern.
C16_FirstMatchingSpanNamesTheCourse ==
    (ret.of = "courses" /\ raised = "none") =>
        LET cs == Val(ret.value)
            page == Val(ms.dashboard).soup
            kept == {i \in 1..Len(page) : IsCourseAnchor(page[i])}
        IN  /\ Len(cs) = Cardinality(kept)
            /\ Len(cs) <= Cardinality(CourseViewAnchors(page))
            /\ \E f \in [1..Len(cs) -> 1..Len(page)] :
                  /\ \A j, k \in 1..Len(cs) : j < k => f[j] < f[k]
                  /\ {f[k] : k \in 1..Len(cs)} = kept
                  /\ \A k \in 1..Len(cs) :
                        \E j \in 1..Len(page[f[k]].spans) :
                            /\ IsCourseCodeSpan(page[f[k]], j)
                            /\ \A h \in 1..(j - 1) :
                                  ~IsCourseCodeSpan(page[f[k]], h)
                            /\ cs[k].name = Val(page[f[k]].spans[j])

\* C16 witness: the anchor with the spans COMP-248 and SOEN-363, after an
\* anchor without a course code, gives the single Course COMP-248.
C16_Witness ==
    /\ ret.of = "courses"
    /\ raised = "none"
    /\ Val(ms.dashboard).soup =
          << Anchor(Some(Host \o ViewPhpId \o <<"6">>),
                    <<Some(<<"N", "e", "w", "s">>)>>),
             Anchor(Some(Host \o ViewPhpId \o <<"5">>),
                    <<Some(COMP248), Some(SOEN363)>>) >>
    /\ Len(Val(ret.value)) = 1
    /\ Val(ret.value)[1].name = COMP248

-----------------------------------------------------------------------------
(* Claims about Course (specification SpecCourse) *)

\* The URL shape as the claim words it: .../mod/resource/view.php?id=<number>
IsModResourceAnchor(a) ==
    IF IsNone(a.href) THEN FALSE
    ELSE SearchLiteralThenDigit(ModResource \o ViewPhpId, Val(a.href))

\* The URL shape of the code: .../moodle/mod/resource/view.php?id=<number>
IsMoodleModResourceAnchor(a) ==
    IF IsNone(a.href) THEN FALSE
    ELSE SearchLiteralThenDigit(Moodle \o ModResource \o ViewPhpId,
                                Val(a.href))

\* C6 as stated: resources returns exactly one Resource per anchor whose href
\* has the shape .../mod/resource/view.php?id=<number>, with that href as its
\* url, in document order and without deduplication.
C6_ResourcesAreTheModResourceAnchors ==
    (ret.of = "resources" /\ raised = "none") =>
        /\ ~IsNone(ret.value)
        /\ OnePerKeptAnchor(Val(ret.value), Val(course.soup),
              {i \in 1..Len(Val(course.soup)) :
                  IsModResourceAnchor(Val(course.soup)[i])})

\* C6 amended: the same, for the anchors whose href has the shape
\* .../moodle/mod/resource/view.php?id=<number>: the path segment /moodle is
\* part of the pattern.
C6_ResourcesAreTheMoodleModResourceAnchors ==
    (ret.of = "resources" /\ raised = "none") =>
        /\ ~IsNone(ret.value)
        /\ SoupCached
        /\ OnePerKeptAnchor(Val(ret.value), Val(course.soup),
              {i \in 1..Len(Val(course.soup)) :
                  IsMoodleModResourceAnchor(Val(course.soup)[i])})
        /\ \A k \in 1..Len(Val(ret.value)) :
              Val(ret.value)[k].session = course.session

\* C6 witness: the same resource link twice gives two Resources, in order.
C6_Witness ==
    /\ ret.of = "resources"
    /\ raised = "none"
    /\ Len(Val(course.soup)) = 2
    /\ Len(Val(ret.value)) = 2
    /\ Val(ret.value)[1].url = Val(ret.value)[2].url
    /\ Val(ret.value)[1].url = Host \o Moodle \o ModResource \o ViewPhpId \o <<"1">>

\* The GETs of the course page that returned a page.
CoursePageFetches ==
    {i \in 1..Len(requests) :
        /\ requests[i].method = "GET"
        /\ requests[i].url = course.url
        /\ requests[i].result = "returned"}

\* C12: the list of a MoodleSession's courses and the list of a Course's
\* resources are computed at most once per instance, whatever the page holds
\* (a page without a qualifying anchor included) and whatever the accesses:
\* the extraction runs at most once, and the course page is fetched at most
\* once.
C12_ListsAreComputedOnce ==
    /\ extractions <= 1
    /\ Cardinality(CoursePageFetches) <= 1

-----------------------------------------------------------------------------
(* Claims about Resource.name and Resource.response (specification SpecName) *)

\* The GETs of the resource URL that returned a response.
ResourceGets ==
    {i \in 1..Len(requests) :
        /\ requests[i].method = "GET"
        /\ requests[i].url = resource.url
        /\ requests[i].result = "returned"}

\* C3: whatever the accesses to name and response and whatever status the
\* server answers with, at most one GET of the resource URL gets a response:
\* the first access fetches, every later one reuses the stored response.
C3_AtMostOneGet == Cardinality(ResourceGets) <= 1

\* The header holds no  filename="  that a later quote closes.
NoQuotedFilename(h) ==
    ~ \E p \in 1..Len(h) :
        /\ HasAt(h, p, FilenameEqQuote)
        /\ \E q \in (p + Len(FilenameEqQuote))..Len(h) : h[q] = Quote

\* C9: reading name when the response has no Content-Disposition header, or
\* one without a quoted filename, yields None or '' and raises nothing.
C9_NameWithoutFilenameIsNull ==
    (/\ ret.of = "name"
     /\ raised # "TransportError"
     /\ IF IsNone(ServedAt(resource.url).disposition) THEN TRUE
        ELSE NoQuotedFilename(Val(ServedAt(resource.url).disposition)))
        => /\ raised = "none"
           /\ ret.value \in {None, Some(<<>>)}

HasNoQuote(X) == \A k \in 1..Len(X) : X[k] # Quote

\* C10: for a file name X without a quote character, the name of a Resource
\* whose response carries  Content-Disposition: attachment; filename="X"
\* is X exactly.
C10_NameIsTheQuotedFilename ==
    \A X \in FileNames :
        (/\ HasNoQuote(X)
         /\ ServedAt(resource.url).disposition = Some(AttachmentHeader(X))
         /\ ret.of = "name"
         /\ raised # "TransportError")
            => /\ raised = "none"
               /\ ret.value = Some(X)
               /\ resource.name = Some(X)

\* C10 witness: the name read from  attachment; filename="a."  is  a.
C10_Witness ==
    /\ ret.of = "name"
    /\ raised = "none"
    /\ ServedAt(resource.url).disposition = Some(AttachmentHeader(<<"a", ".">>))
    /\ ret.value = Some(<<"a", ".">>)

-----------------------------------------------------------------------------
(* Claims about Resource.download (specification SpecResource) *)

NonEmptyChunks(chunks) == SelectSeq(chunks, LAMBDA c : c # <<>>)

\* C7: a download into a target directory that does not exist creates it,
\* writes the non-empty chunks of the body to the destination file in stream
\* order, and completes with the sum of their lengths, which is the number of
\* bytes in the file.
C7_DownloadWritesTheChunks ==
    (IF IsNone(task) THEN FALSE ELSE Val(task).mkdir = "created") =>
        LET t == Val(task)
        IN  /\ Val(t.prefix_dir) \in fs.dirs
            /\ Truthy(t.filename) => t.state = "done" \/ t.exc = "TransportError"
            /\ t.state = "done" =>
                  LET kept == NonEmptyChunks(Val(resource.response).chunks)
                  IN  /\ Val(t.path).dir = t.prefix_dir
                      /\ t.result = Some(SumLen(kept))
                      /\ \E x \in fs.files :
                            /\ x.path = Val(t.path)
                            /\ x.content = Concat(kept)
                            /\ t.result = Some(Len(x.content))

\* C7 witness: a download that made its directory and met an empty chunk
\* before a chunk of two bytes.
C7_Witness ==
    IF IsNone(task) THEN FALSE
    ELSE /\ Val(task).mkdir = "created"
         /\ Val(task).state = "done"
         /\ ServedAt(resource.url).chunks = << <<>>, <<2, 3>> >>
         /\ Val(task).result = Some(2)

\* C8: when os.makedirs fails because the directory already exists, the
\* download goes on and writes the file; any other failure of os.makedirs
\* is raised to the caller as that OSError and no file is opened.
C8_OnlyAlreadyExistsIsForgiven ==
    IF IsNone(task) THEN TRUE
    ELSE LET t == Val(task)
         IN  /\ (t.mkdir = "EEXIST" /\ Truthy(t.filename)) =>
                    t.state = "done" \/ t.exc = "TransportError"
             /\ t.mkdir = "EACCES" =>
                    t.state = "failed" /\ t.exc = "OSError" /\ IsNone(t.path)


\* The destination download(prefix_dir, filename) must open when filename is
\* given: filename, under prefix_dir when that is given.
Destination(prefix_dir, filename) ==
    Path(IF TruthyDir(prefix_dir) THEN prefix_dir ELSE None, Val(filename))

\* C15: a filename argument that is not empty decides the destination, under
\* the target directory when one is given.  The Content-Disposition header is
\* not looked at: the run of the body leaves the Resource's name as it was and
\* raises neither KeyError nor TypeError, and it completes, with that file
\* written, unless the GET or os.makedirs raises, whether the header is
\* absent, without a filename or with one.  Without a filename argument a
\* download that completes has taken the name from the header.
C15_FilenameArgumentDecides ==
    /\ [][(IF IsNone(task) THEN FALSE
           ELSE /\ Val(task).state = "pending"
                /\ Truthy(Val(task).filename)
                /\ task' # task)
            => resource'.name = resource.name]_vars
    /\ [](IF IsNone(task) THEN TRUE
          ELSE LET t == Val(task)
               IN  /\ (Truthy(t.filename) /\ t.state # "pending") =>
                         /\ t.exc \in {"none", "TransportError", "NameError"}
                         /\ t.exc = "none" <=> t.state = "done"
                         /\ t.exc = "NameError" <=> t.mkdir \in {"EEXIST", "EACCES"}
                         /\ ~IsNone(t.path) =>
                               Val(t.path) = Destination(t.prefix_dir, t.filename)
                         /\ t.state = "done" =>
                               \E x \in fs.files :
                                   x.path = Destination(t.prefix_dir, t.filename)
                   /\ (~Truthy(t.filename) /\ t.state = "done") =>
                         /\ ServedAt(resource.url).disposition =
                               Some(AttachmentHeader(Val(t.path).name))
                         /\ resource.name = Some(Val(t.path).name))

\* C15 witness: download(prefix_dir='downloads', filename='f') of a Resource
\* whose response has no Content-Disposition header completed and wrote
\* downloads/f; the Resource has no name.
C15_Witness ==
    IF IsNone(task) THEN FALSE
    ELSE /\ Val(task).state = "done"
         /\ Val(task).filename = Some(<<"f">>)
         /\ IsNone(ServedAt(resource.url).disposition)
         /\ IsNone(resource.name)
         /\ Val(task).path = Some(Path(Some("downloads"), <<"f">>))
         /\ ServedAt(resource.url).chunks = << <<1>>, <<2, 3>> >>
         /\ \E x \in fs.files :
               /\ x.path = Path(Some("downloads"), <<"f">>)
               /\ x.content = <<1, 2, 3>>

-----------------------------------------------------------------------------
(* Claims about downloads on the event loop (specification SpecLoop) *)

\* The bytes of the body the server holds at the URL of the Resource Task k
\* was made for, empty chunks apart.
OwnBytes(k) ==
    SumLen(NonEmptyChunks(served[resources[tasks[k].of].url].chunks))

\* A Task that has not had its first step has left no trace: it waits in the
\* ready queue and has opened and written nothing.
PendingIsUntouched ==
    \A k \in 1..Len(tasks) :
        tasks[k].task.state = "pending" =>
            /\ \E j \in 1..Len(loop.ready) : loop.ready[j] = k
            /\ IsNone(tasks[k].task.path)
            /\ tasks[k].bytes_saved = 0

\* C11: download does not block its caller.  The call returns a Task that is
\* scheduled and has not begun: the step of the call issues no request and
\* writes nothing.  Several Tasks may be scheduled on Resources of one
\* Session; when the caller has waited and nothing is left scheduled every
\* Task is done, and each Task that completed holds the byte count of its own
\* Resource.
C11_DownloadReturnsAScheduledTask ==
    /\ [][Len(tasks') > Len(tasks) =>
            /\ requests' = requests
            /\ fs' = fs
            /\ resources' = resources
            /\ loop'.caller = "running"
            /\ tasks'[Len(tasks')].task.state = "pending"
            /\ ret'.value = Some(Len(tasks'))]_vars
    /\ [](/\ PendingIsUntouched
          /\ \A k \in 1..Len(tasks) :
                /\ resources[tasks[k].of].session = OwnSession
                /\ tasks[k].task.state = "done" =>
                      tasks[k].task.result = Some(OwnBytes(k))
          /\ (loop.caller = "running" /\ loop.ready = <<>>) =>
                \A k \in 1..Len(tasks) : Finished(tasks[k]))

\* C11 witness: two Tasks on two Resources were scheduled before any ran, the
\* caller has waited, and they completed with 2 and 3 bytes.
C11_Witness ==
    /\ Len(tasks) = 2
    /\ loop.caller = "running"
    /\ ret.of = "await"
    /\ loop.started = <<1, 2>>
    /\ Len(requests) = 2
    /\ tasks[1].of = 1 /\ tasks[1].task.state = "done"
    /\ tasks[2].of = 2 /\ tasks[2].task.state = "done"
    /\ tasks[1].task.result = Some(2)
    /\ tasks[2].task.result = Some(3)

\* cancel() has been called on Task k before it was done.
CancelRequested(k) ==
    tasks[k].must_cancel \/ tasks[k].task.state = "cancelled"

\* C14: a Task cancelled before it was done writes nothing from then on: it
\* never runs its body, its byte count and its file stay as they were, and
\* the step that ends it as cancelled leaves the files and the requests as
\* they are: what was written is neither removed nor truncated.
C14_CancelledTaskWritesNothingMore ==
    [][\A k \in 1..Len(tasks) :
          CancelRequested(k) =>
              /\ tasks'[k].task.state \in {"pending", "cancelled"}
              /\ tasks'[k].bytes_saved = tasks[k].bytes_saved
              /\ tasks'[k].task.path = tasks[k].task.path
              /\ tasks'[k] # tasks[k] =>
                    /\ tasks'[k].task.state = "cancelled"
                    /\ fs' = fs
                    /\ requests' = requests]_vars

\* C14 witness: the second of two Tasks for the same file was cancelled while
\* scheduled; the caller's await raised CancelledError, and the file the first
\* Task wrote is as that Task left it.
C14_Witness ==
    /\ Len(tasks) = 2
    /\ loop.caller = "running"
    /\ raised = "CancelledError"
    /\ tasks[1].task.state = "done"
    /\ tasks[1].task.result = Some(2)
    /\ tasks[2].task.state = "cancelled"
    /\ tasks[2].task.filename = tasks[1].task.filename
    /\ Truthy(tasks[1].task.filename)
    /\ IsNone(tasks[2].task.path)
    /\ fs.files = {[path |-> Val(tasks[1].task.path), content |-> <<2, 3>>]}

\* C18: the body of a download has no point of suspension.  While a body runs
\* no other Task runs and the caller does not run; every Task whose body began
\* earlier is done; the chunk writes of one Task form one block, that is, the
\* writes of two Tasks are never interleaved; and the bodies begin, and the
\* blocks follow each other, in the order the Tasks were scheduled.
C18_DownloadsRunOneAfterAnother ==
    /\ Cardinality(Running) <= 1
    /\ Running # {} => loop.caller = "waiting"
    /\ \A k \in Running :
          \A h \in 1..Len(tasks) :
              h # k => tasks[h].task.state \in {"pending", "done", "failed",
                                                "cancelled"}
    /\ \A i, j \in 1..Len(loop.started) :
          i < j => loop.started[i] < loop.started[j]
    /\ \A i \in 1..Len(loop.started) :
          i < Len(loop.started) => Finished(tasks[loop.started[i]])
    /\ \A i, j \in 1..Len(loop.writes) :
          i < j => loop.writes[i] <= loop.writes[j]
    /\ \A k \in 1..Len(tasks) :
          /\ tasks[k].task.state = "done" => tasks[k].todo = <<>>
          /\ tasks[k].task.state = "pending" =>
                \A i \in 1..Len(loop.started) : loop.started[i] < k

\* C18 witness: two Tasks were scheduled for the same file before either ran;
\* the first wrote its two chunks and was done, then the second wrote its two.
C18_Witness ==
    /\ Len(tasks) = 2
    /\ loop.started = <<1, 2>>
    /\ loop.writes = <<1, 1, 2, 2>>
    /\ n_access = 3
    /\ tasks[1].task.state = "done"
    /\ tasks[2].task.state = "done"
    /\ tasks[1].task.path = tasks[2].task.path
    /\ fs.files = {[path |-> Val(tasks[2].task.path), content |-> <<2, 3, 1>>]}

-----------------------------------------------------------------------------
(* Claims about the whole portal (specification SpecPortal) *)

\* C13: every Course in the list of a MoodleSession's courses, and every
\* Resource in the list of such a Course's resources, holds the Session that
\* the MoodleSession made and logged in; every request, of the MoodleSession,
\* of a Course or of a Resource, goes through that Session and through no
\* default or new one.
C13_OneSessionForAll ==
    /\ ms_state # "unconstructed" => ms.session = OwnSession
    /\ ~IsNone(ms.courses) =>
          \A k \in 1..Len(Val(ms.courses)) :
              Val(ms.courses)[k].session = ms.session
    /\ course # NoCourse =>
          /\ course.session = ms.session
          /\ ~IsNone(course.resource_list) =>
                \A k \in 1..Len(Val(course.resource_list)) :
                    Val(course.resource_list)[k].session = ms.session
    /\ resource # NoResource => resource.session = ms.session
    /\ \A i \in 1..Len(requests) : requests[i].session = OwnSession

\* C13 witness: a Resource of a Course of the MoodleSession has fetched its
\* response: six requests, the last one the GET of the Resource's URL.
C13_Witness ==
    /\ resource # NoResource
    /\ ~IsNone(resource.response)
    /\ Len(requests) = 6
    /\ requests[6].url = resource.url
    /\ requests[6].session = ms.session
    /\ requests[5].url = course.url

\* A request for content of the portal: any request but the three of the
\* handshake.
IsContentRequest(i) ==
    \/ i > 3
    \/ requests[i].method = "GET" /\ requests[i].url # URL_DASHBOARD
    \/ IsDashboardGet(requests[i]) /\ i # 2

\* C17: no request for content (the loader's fetch of the dashboard, the fetch
\* of a course page, the GET of a resource) is issued before request 3 of the
\* handshake has returned; and when a step of the handshake raises, the
\* construction fails: there is no MoodleSession, hence no Course and no
\* Resource, and nothing more is requested.
C17_NoContentBeforeLogin ==
    /\ \A i \in 1..Len(requests) :
          IsContentRequest(i) =>
              /\ i > 3
              /\ IsAcsPost(requests[3])
              /\ \A j \in 1..3 : requests[j].result = "returned"
              /\ ms_state = "constructed"
    /\ (\E j \in 1..Len(requests) : j <= 3 /\ requests[j].result = "raised")
          => ms_state = "failed"
    /\ raised = "IndexError" => ms_state = "failed"
    /\ ms_state # "constructed" =>
          /\ Len(requests) <= 3
          /\ n_access = 0
          /\ IsNone(ms.dashboard) /\ IsNone(ms.courses)
          /\ course = NoCourse
          /\ resource = NoResource

\* C17 witness: after a login that returned, the loader fetched the dashboard
\* as request 4 and a Course fetched its page as request 5.
C17_Witness ==
    /\ ms_state = "constructed"
    /\ Len(requests) = 5
    /\ IsDashboardGet(requests[4])
    /\ requests[5].url = course.url
    /\ requests[5].result = "returned"
    /\ \A j \in 1..3 : requests[j].result = "returned"

=============================================================================
